---------------------------- MODULE Spec2Model ----------------------------
(***************************************************************************)
(* Model of the client-side subscription engine, src/client/src/tscSub.c:  *)
(* the progress array of one subscription, its progress file, topology     *)
(* refresh, the consume retry loop and the timer-driven scheduler.         *)
(*                                                                         *)
(* Text is modelled as sequences of one-character strings, the progress    *)
(* file as the flat sequence of its bytes.  64-bit integers are scaled to  *)
(* a narrow width so that INT64_MIN is a value TLC can hold.               *)
(***************************************************************************)
EXTENDS Integers, Sequences, FiniteSets, TLC

(***************************************************************************)
(* Bounds of the model.                                                    *)
(***************************************************************************)
\* number of child tables the server can hold
MaxTables == 2
\* timestamps a query can deliver are 1..MaxTs
MaxTs == 2
\* number of times the clock advances in a behaviour
MaxTicks == 1

(***************************************************************************)
(* Values.                                                                 *)
(***************************************************************************)
\* int64_t scaled to 5 bits: the sentinel tscUpdateSubscription passes as default
INT64_MIN == -(2^4)
INT64_MAX == (2^4) - 1
\* table uids: one-digit and two-digit decimals
Uids == 9 .. (8 + MaxTables)
\* the uid of the normal table (pTableMeta->uid): the smallest one
NormalUid == CHOOSE u \in Uids : \A v \in Uids : u <= v
TsValues == 1 .. MaxTs
NULL == 0
\* the loop bound of taos_consume
MaxRetry == 3
\* the staleness threshold of taos_consume, in ms
SyncPeriod == 10 * 60 * 1000

(***************************************************************************)
(* Text.                                                                   *)
(***************************************************************************)
Digits == <<"0", "1", "2", "3", "4", "5", "6", "7", "8", "9">>
LF == "\n"
CR == "\r"

IsDigit(c) == \E d \in 1..10 : Digits[d] = c
DigitVal(c) == (CHOOSE d \in 1..10 : Digits[d] = c) - 1
IsSpace(c) == c \in {" ", "\t", LF, CR}

Upper == <<"S", "E", "L", "C", "T", "F", "R", "O", "M">>
Lower == <<"s", "e", "l", "c", "t", "f", "r", "o", "m">>
\* tolower of one character
ToLower(c) == IF \E i \in 1..Len(Upper) : Upper[i] = c
              THEN Lower[CHOOSE i \in 1..Len(Upper) : Upper[i] = c]
              ELSE c
\* strtolower(dst, src)
strtolower(s) == [i \in 1..Len(s) |-> ToLower(s[i])]

RECURSIVE FormatNat(_)
FormatNat(n) == IF n < 10 THEN <<Digits[n + 1]>>
                ELSE FormatNat(n \div 10) \o <<Digits[(n % 10) + 1]>>
\* printf("%" PRId64)
FormatInt64(n) == IF n < 0 THEN <<"-">> \o FormatNat(-n) ELSE FormatNat(n)

RECURSIVE SkipSpace(_)
SkipSpace(s) == IF s # <<>> /\ IsSpace(s[1]) THEN SkipSpace(Tail(s)) ELSE s

RECURSIVE ScanDigits(_, _)
\* the longest digit prefix of s, accumulated on acc: [val, rest]
ScanDigits(s, acc) ==
    IF s # <<>> /\ IsDigit(s[1])
    THEN ScanDigits(Tail(s), acc * 10 + DigitVal(s[1]))
    ELSE [val |-> acc, rest |-> s]

\* scanf("%" SCNd64): white space, an optional sign, at least one digit;
\* a value out of range is clamped as strtoll clamps it
ScanInt64(s) ==
    LET t == SkipSpace(s)
        neg == t # <<>> /\ t[1] = "-"
        u == IF t # <<>> /\ t[1] \in {"-", "+"} THEN Tail(t) ELSE t
    IN IF u = <<>> \/ ~IsDigit(u[1])
       THEN [ok |-> FALSE, val |-> 0, rest |-> s]
       ELSE LET d == ScanDigits(u, 0)
                v == IF neg THEN -d.val ELSE d.val
                c == IF v < INT64_MIN THEN INT64_MIN
                     ELSE IF v > INT64_MAX THEN INT64_MAX ELSE v
            IN [ok |-> TRUE, val |-> c, rest |-> d.rest]

\* sscanf(buf, "%lld:%lld", &uid, &key): the number of fields assigned and
\* their values
ScanEntry(buf) ==
    LET a == ScanInt64(buf)
    IN IF ~a.ok THEN [n |-> 0, uid |-> 0, key |-> 0]
       ELSE IF a.rest = <<>> \/ a.rest[1] # ":"
            THEN [n |-> 1, uid |-> a.val, key |-> 0]
            ELSE LET b == ScanInt64(Tail(a.rest))
                 IN IF ~b.ok THEN [n |-> 1, uid |-> a.val, key |-> 0]
                    ELSE [n |-> 2, uid |-> a.val, key |-> b.val]

RECURSIVE LineEnd(_, _)
\* the index of the first LF of s at or after i, or Len(s) when there is none
LineEnd(s, i) == IF i >= Len(s) THEN Len(s)
                 ELSE IF s[i] = LF THEN i ELSE LineEnd(s, i + 1)

\* fgets(buf, size, fp) at offset pos (0-based) of data: NULL at end of file,
\* else the line with its LF, at most size-1 bytes, and the new offset
fgets(data, pos, size) ==
    IF pos >= Len(data) THEN [null |-> TRUE, buf |-> <<>>, pos |-> pos]
    ELSE LET e == LineEnd(data, pos + 1)
             last == IF e - pos > size - 1 THEN pos + size - 1 ELSE e
         IN [null |-> FALSE, buf |-> SubSeq(data, pos + 1, last), pos |-> last]

RECURSIVE StripEol(_)
\* the loop of tscLoadSubscriptionProgress that cuts buf at the first CR or LF
StripEol(buf) == IF buf = <<>> \/ buf[1] \in {CR, LF} THEN <<>>
                 ELSE <<buf[1]>> \o StripEol(Tail(buf))

(***************************************************************************)
(* The progress array (SArray of SSubscriptionProgress).                   *)
(***************************************************************************)
Entry(u, k) == [uid |-> u, key |-> k]

tscCompareSubscriptionProgress(x, y) ==
    IF x.uid > y.uid THEN 1 ELSE IF x.uid < y.uid THEN -1 ELSE 0

RECURSIVE BSearch(_, _, _, _)
\* bsearch over arr[l+1 .. u]: the index of an element equal to target, or NULL
BSearch(arr, target, l, u) ==
    IF l >= u THEN NULL
    ELSE LET idx == (l + u) \div 2
             c == tscCompareSubscriptionProgress(target, arr[idx + 1])
         IN IF c < 0 THEN BSearch(arr, target, l, idx)
            ELSE IF c > 0 THEN BSearch(arr, target, idx + 1, u)
            ELSE idx + 1

\* taosArraySearch(pArray, key, tscCompareSubscriptionProgress)
taosArraySearch(arr, target) == BSearch(arr, target, 0, Len(arr))

RECURSIVE InsertSorted(_, _)
InsertSorted(arr, e) ==
    IF arr = <<>> THEN <<e>>
    ELSE IF tscCompareSubscriptionProgress(e, arr[1]) < 0 THEN <<e>> \o arr
    ELSE <<arr[1]>> \o InsertSorted(Tail(arr), e)

RECURSIVE SortFrom(_, _)
SortFrom(arr, acc) ==
    IF arr = <<>> THEN acc ELSE SortFrom(Tail(arr), InsertSorted(acc, arr[1]))

\* taosArraySort(pArray, tscCompareSubscriptionProgress)
taosArraySort(arr) == SortFrom(arr, <<>>)

\* tscGetSubscriptionProgress on a non-NULL subscription
tscGetSubscriptionProgress(prog, uid, dflt) ==
    LET p == taosArraySearch(prog, Entry(uid, 0))
    IN IF p = NULL THEN dflt ELSE prog[p].key

\* tscUpdateSubscriptionProgress on a non-NULL subscription: the new array
tscUpdateSubscriptionProgress(prog, uid, ts) ==
    LET p == taosArraySearch(prog, Entry(uid, ts))
    IN IF p # NULL THEN [prog EXCEPT ![p].key = ts] ELSE prog

(***************************************************************************)
(* Topology refresh.                                                       *)
(***************************************************************************)
IsInjective(s) == \A i, j \in 1..Len(s) : s[i] = s[j] => i = j

\* a refresh that looks no key up: every table starts from the beginning
NewProgressFresh(prog, tables) ==
    [i \in 1..Len(tables) |-> Entry(tables[i], INT64_MIN)]

\* the loop of tscUpdateSubscription over the table list: one entry per
\* table, its key looked up in the current array
NewProgress(prog, tables) ==
    [i \in 1..Len(tables) |->
        Entry(tables[i], tscGetSubscriptionProgress(prog, tables[i], INT64_MIN))]

\* a refresh that empties the array when getTableList fails
UpdateClearsOnFailure(kind, prog, tables) ==
    IF kind = "normal"
    THEN LET target == Entry(NormalUid, 0)
             p == taosArraySearch(prog, target)
         IN [ret |-> 1, progress |-> IF p = NULL THEN <<target>> ELSE prog]
    ELSE IF tables.null THEN [ret |-> 0, progress |-> <<>>]
    ELSE [ret |-> 1, progress |-> taosArraySort(NewProgress(prog, tables.list))]

\* tscUpdateSubscription without its clock write: kind is the table kind,
\* tables the outcome of getTableList (NULL on failure, else the uid list;
\* not called for a normal table).
\* Returns the return code and the new progress array.
tscUpdateSubscription(kind, prog, tables) ==
    IF kind = "normal"
    THEN LET target == Entry(NormalUid, 0)
             p == taosArraySearch(prog, target)
         IN [ret |-> 1, progress |-> IF p = NULL THEN <<target>> ELSE prog]
    ELSE IF tables.null THEN [ret |-> 0, progress |-> prog]
    ELSE [ret |-> 1, progress |-> taosArraySort(NewProgress(prog, tables.list))]

\* a refresh that sets lastSyncTime only when it succeeds
SyncedOnSuccess(sub, t, up) ==
    IF up.ret = 0 THEN sub
    ELSE [sub EXCEPT !.lastSyncTime = t, !.progress = up.progress]

\* the subscription after tscUpdateSubscription called at time t with
\* outcome up: the clock is written first, whatever the outcome
Synced(sub, t, up) ==
    [sub EXCEPT !.lastSyncTime = t, !.progress = up.progress]

(***************************************************************************)
(* The progress file, <dataDir>/subscribe/<topic>.                         *)
(***************************************************************************)
\* the size of buf in tscLoadSubscriptionProgress (set outside this file)
TSDB_MAX_SQL_LEN == 65480
\* values an uninitialised int64_t field can hold
Garbage == {INT64_MIN, NormalUid}

NoFile == [exists |-> FALSE, data |-> <<>>]
FileOf(bytes) == [exists |-> TRUE, data |-> bytes]

\* fprintf(fp, "%" PRId64 ":%" PRId64 "\n", p->uid, p->key)
FormatEntry(e) == FormatInt64(e.uid) \o <<":">> \o FormatInt64(e.key) \o <<LF>>

RECURSIVE FormatEntries(_)
FormatEntries(prog) ==
    IF prog = <<>> THEN <<>> ELSE FormatEntry(prog[1]) \o FormatEntries(Tail(prog))

\* a save that writes nothing
SaveKeepsFile(f, sqlstr, prog, opened) == f

\* a save that writes the statement and no entry
SaveHeaderOnly(f, sqlstr, prog, opened) ==
    IF ~opened THEN f ELSE FileOf(sqlstr \o <<LF>>)

\* tscSaveSubscriptionProgress: the file afterwards; opened is the outcome of
\* fopen(path, "w+")
tscSaveSubscriptionProgress(f, sqlstr, prog, opened) ==
    IF ~opened THEN f
    ELSE FileOf(sqlstr \o <<LF>> \o FormatEntries(prog))

\* the entries sscanf can leave in p for one line: a field that is not
\* assigned keeps whatever the stack held
ScannedEntries(buf) ==
    LET r == ScanEntry(buf)
    IN {Entry(u, k) : u \in (IF r.n >= 1 THEN {r.uid} ELSE Garbage),
                      k \in (IF r.n = 2 THEN {r.key} ELSE Garbage)}

RECURSIVE ReadEntries(_, _)
\* the while(1) loop of tscLoadSubscriptionProgress from offset pos: the
\* arrays it can have pushed when fgets returns NULL
ReadEntries(data, pos) ==
    LET r == fgets(data, pos, TSDB_MAX_SQL_LEN)
    IN IF r.null THEN {<<>>}
       ELSE {<<e>> \o rest : e \in ScannedEntries(r.buf),
                             rest \in ReadEntries(data, r.pos)}

\* a load that does not compare the first line with the statement
LoadAnySql(f, sqlstr, prog, opened) ==
    IF ~f.exists \/ ~opened THEN {[ret |-> 1, progress |-> prog]}
    ELSE LET first == fgets(f.data, 0, TSDB_MAX_SQL_LEN)
         IN IF first.null THEN {[ret |-> 0, progress |-> prog]}
            ELSE {[ret |-> 0, progress |-> es] :
                     es \in ReadEntries(f.data, first.pos)}

\* tscLoadSubscriptionProgress: the possible outcomes [ret, progress];
\* opened is the outcome of fopen(path, "r") on an existing file
tscLoadSubscriptionProgress(f, sqlstr, prog, opened) ==
    IF ~f.exists \/ ~opened THEN {[ret |-> 1, progress |-> prog]}
    ELSE LET first == fgets(f.data, 0, TSDB_MAX_SQL_LEN)
         IN IF first.null THEN {[ret |-> 0, progress |-> prog]}
            ELSE IF StripEol(first.buf) # sqlstr
                 THEN {[ret |-> 0, progress |-> prog]}
                 ELSE {[ret |-> 0, progress |-> es] :
                          es \in ReadEntries(f.data, first.pos)}

(***************************************************************************)
(* Inputs.                                                                 *)
(***************************************************************************)
\* "select * from s": a super table
SqlSuper == <<"s", "e", "l", "e", "c", "t", " ", "*", " ", "f", "r", "o", "m", " ", "s">>
\* "SELECT * FROM s": the same statement as the user may write it
SqlSuperUpper == <<"S", "E", "L", "E", "C", "T", " ", "*", " ", "F", "R", "O", "M", " ", "s">>
\* "select * from t": a normal table, one character away from SqlSuper
SqlNormal == <<"s", "e", "l", "e", "c", "t", " ", "*", " ", "f", "r", "o", "m", " ", "t">>
SqlTexts == {SqlSuper, SqlSuperUpper, SqlNormal}

\* UTIL_TABLE_IS_NORMAL_TABLE / UTIL_TABLE_IS_SUPER_TABLE of the parsed statement
TableKind(sqlstr) == IF sqlstr[Len(sqlstr)] = "t" THEN "normal" ELSE "super"

Intervals == {0, 1000}
\* the clock advances by a millisecond or by more than the staleness threshold
TickSteps == {1, SyncPeriod + 1}
\* taosGetTimestampMs() when the model starts: far from 0, as wall-clock time is
StartTime == 2 * SyncPeriod

\* the table lists getTableList can return: the uids of any set of child
\* tables, in any order
TableLists ==
    UNION {{t \in [1..n -> Uids] : \A i, j \in 1..n : t[i] = t[j] => i = j} :
           n \in 0..MaxTables}

\* the outcomes of getTableList: NULL, or a table list
NoTables == [null |-> TRUE, list |-> <<>>]
TableResults == {NoTables} \cup {[null |-> FALSE, list |-> l] : l \in TableLists}
\* the outcomes of getTableList for a table of the given kind
ResolverOutcomes(kind) == IF kind = "super" THEN TableResults ELSE {NoTables}

UserThread == 0
\* the timer objects of the timer service: one can wait while one runs
TmrIds == 1 .. 2
Threads == {UserThread} \cup TmrIds


(***************************************************************************)
(* State.                                                                  *)
(***************************************************************************)
VARIABLES
    file,   \* the progress file of the topic
    S,      \* the SSub object and its SSqlObj
    now,    \* taosGetTimestampMs()
    ticks,  \* how often the clock has advanced
    tm,     \* the timer service: per timer, its due time and period
    th,     \* per thread: position in taos_consume / the timer callback, locals
    nsub,   \* how many subscriptions have been created: the model follows one
    hw,     \* per uid, the highest key the subscription has recorded for it
    closed, \* the taos_unsubscribe call that ended the subscription, if any
    last    \* the step just taken: its inputs and what it returned

vars == <<file, S, now, ticks, tm, th, nsub, hw, closed, last>>

\* the memory of an SSub after calloc, and after memset(pSub, 0) and free
NoSub == [signature |-> FALSE, sqlstr |-> <<>>, kind |-> "none",
          lastSyncTime |-> 0, lastConsumeTime |-> 0, pTimer |-> NULL,
          interval |-> 0, fp |-> FALSE, progress |-> <<>>,
          code |-> "none", hasResult |-> FALSE]

\* old is the progress array at the entry of the call in progress; aborted
\* tells that a call of the thread was ended by a failed refresh
NoCall == [pc |-> "idle", retry |-> 0, res |-> NULL, execs |-> 0, syncs |-> 0,
           ncons |-> 0, ncb |-> 0, old |-> <<>>, aborted |-> FALSE]
NoTimer == [NoCall EXCEPT !.pc = "free"]
Unset == [due |-> 0, ms |-> 0]

NoOp == [op |-> "none", t |-> 0, restart |-> FALSE, matched |-> FALSE,
         loadRet |-> 1, tables |-> NoTables, old |-> <<>>, ret |-> NULL,
         keep |-> FALSE, ok |-> FALSE, syncFailed |-> FALSE, execs |-> 0, fails |-> 0,
         syncs |-> 0, slept |-> FALSE, ncons |-> 0, ncb |-> 0, null |-> FALSE,
         sql |-> <<>>]

NotClosed == [called |-> FALSE, keep |-> FALSE, ok |-> FALSE]

InConsume(t) == th[t].pc \in {"enter", "pace", "loop", "query", "after"}
InFire(t) == InConsume(t) \/ th[t].pc \in {"fired", "callback", "rearm"}

\* no key recorded
NoKey == INT64_MIN - 1
Max(set) == CHOOSE x \in set : \A y \in set : y <= x
\* hw after a step that leaves the subscription as sub
Track(h, sub) ==
    IF ~sub.signature THEN [u \in Uids |-> NoKey]
    ELSE [u \in Uids |->
            Max({h[u]} \cup {sub.progress[i].key :
                               i \in {j \in 1..Len(sub.progress) : sub.progress[j].uid = u}})]

(***************************************************************************)
(* The progress files that can be on disk when the program starts: none,   *)
(* an empty one, or a first line followed by at most MaxTables lines, each *)
(* an entry, but for at most one line that is no entry.                    *)
(***************************************************************************)
FileHeads == {SqlSuper \o <<LF>>, SqlSuper \o <<CR, LF>>, SqlNormal \o <<LF>>}
BadLine == <<"x", LF>>
FileLines == {FormatEntry(Entry(u, MaxTs)) : u \in Uids} \cup {BadLine}

RECURSIVE Concat(_)
Concat(ls) == IF ls = <<>> THEN <<>> ELSE ls[1] \o Concat(Tail(ls))

InitFiles ==
    {NoFile, FileOf(<<>>)} \cup
    {FileOf(h \o Concat(ls)) :
        h \in FileHeads,
        ls \in {l \in UNION {[1..n -> FileLines] : n \in 0..MaxTables} :
                  Cardinality({k \in 1..Len(l) : l[k] = BadLine}) <= 1}}

Init ==
    /\ file \in InitFiles
    /\ S = NoSub
    /\ now = StartTime
    /\ ticks = 0
    /\ tm = [i \in TmrIds |-> Unset]
    /\ th = [t \in Threads |-> IF t = UserThread THEN NoCall ELSE NoTimer]
    /\ nsub = 0
    /\ hw = [u \in Uids |-> NoKey]
    /\ closed = NotClosed
    /\ last = NoOp

(***************************************************************************)
(* The clock.                                                              *)
(***************************************************************************)
Tick ==
    /\ ticks < MaxTicks
    /\ \E d \in TickSteps : now' = now + d
    /\ ticks' = ticks + 1
    /\ last' = NoOp
    /\ UNCHANGED <<file, S, tm, th>>

(***************************************************************************)
(* The timer service (ttimer): stop and reset.                             *)
(***************************************************************************)
\* taosTmrStop(id): a timer that waits is cancelled; none fires afterwards
taosTmrStop(threads, id) ==
    IF id # NULL /\ threads[id].pc = "armed"
    THEN [threads EXCEPT ![id].pc = "free"]
    ELSE threads

\* the timers taosTmrReset can hand out once *pTmrId is stopped: the free
\* one of lowest id
FreeTimers(threads, cur) ==
    LET free == {i \in TmrIds : taosTmrStop(threads, cur)[i].pc = "free"}
    IN {i \in free : \A j \in free : i <= j}

\* taosTmrReset(fp, ms, pSub, tscTmr, &pSub->pTimer) handing out timer id:
\* the threads afterwards
taosTmrReset(threads, cur, id) ==
    [taosTmrStop(threads, cur) EXCEPT ![id] = [NoCall EXCEPT !.pc = "armed"]]

\* the timer table after taosTmrStop(cur) and after timer id is set to ms
TimersStopped(timers, threads, cur) ==
    [i \in TmrIds |-> IF taosTmrStop(threads, cur)[i].pc = "free" THEN Unset
                      ELSE timers[i]]
TimersReset(timers, threads, cur, id, ms) ==
    [TimersStopped(timers, threads, cur) EXCEPT ![id] = [due |-> now + ms, ms |-> ms]]

(***************************************************************************)
(* taos_subscribe.                                                         *)
(***************************************************************************)
\* whether the first line of f, cut at CR or LF, is sqlstr
FirstLineIs(f, sqlstr) ==
    /\ f.exists
    /\ ~fgets(f.data, 0, TSDB_MAX_SQL_LEN).null
    /\ StripEol(fgets(f.data, 0, TSDB_MAX_SQL_LEN).buf) = sqlstr

\* what taos_subscribe has in pSub->progress before tscUpdateSubscription:
\* the outcomes of tscLoadSubscriptionProgress, or nothing on restart
LoadOutcomes(restart, f, sqlstr) ==
    IF restart THEN {[ret |-> 1, progress |-> <<>>]}
    ELSE UNION {tscLoadSubscriptionProgress(f, sqlstr, <<>>, opened) :
                  opened \in BOOLEAN}

\* the whole of taos_subscribe on a live connection, for one outcome ld of
\* the load and one outcome tables of getTableList
SubscribeWith(restart, sqlstr, tables, ld, matched) ==
    LET kind == TableKind(sqlstr)
        created == [NoSub EXCEPT !.signature = TRUE, !.sqlstr = sqlstr,
                                 !.kind = kind, !.progress = ld.progress]
        up == tscUpdateSubscription(kind, created.progress, tables)
        synced == Synced(created, now, up)
        call == [NoOp EXCEPT !.op = "subscribe", !.restart = restart, !.sql = sqlstr,
                             !.tables = tables, !.loadRet = ld.ret,
                             !.old = ld.progress, !.matched = matched]
    IN IF up.ret = 0
       THEN \* taos_unsubscribe(pSub, 1); return NULL
            \E saved \in BOOLEAN :
            /\ file' = tscSaveSubscriptionProgress(file, sqlstr, synced.progress, saved)
            /\ S' = NoSub
            /\ last' = [call EXCEPT !.ret = NULL, !.ok = saved]
            /\ UNCHANGED <<tm, th>>
       ELSE \E fpSet \in BOOLEAN, interval \in Intervals :
            IF fpSet
            THEN \E id \in FreeTimers(th, NULL) :
                 /\ S' = [synced EXCEPT !.interval = interval, !.fp = TRUE,
                                        !.pTimer = id]
                 /\ th' = taosTmrReset(th, NULL, id)
                 /\ tm' = TimersReset(tm, th, NULL, id, interval)
                 /\ last' = [call EXCEPT !.ret = 1]
                 /\ UNCHANGED file
            ELSE /\ S' = [synced EXCEPT !.interval = interval]
                 /\ last' = [call EXCEPT !.ret = 1]
                 /\ UNCHANGED <<file, tm, th>>

taos_subscribe ==
    /\ ~S.signature
    /\ nsub = 0
    /\ nsub' = nsub + 1
    /\ \A t \in Threads : ~InFire(t)
    /\ \E sql \in SqlTexts :
         LET sqlstr == strtolower(sql)
             matched == FirstLineIs(file, sqlstr)
         IN \E restart \in BOOLEAN :
              \E ld \in LoadOutcomes(restart, file, sqlstr) :
                \E tables \in ResolverOutcomes(TableKind(sqlstr)) :
                   SubscribeWith(restart, sqlstr, tables, ld, matched)
    /\ UNCHANGED <<now, ticks>>

\* taos_subscribe on a connection that is closed, or when
\* tscCreateSubscription fails: NULL, and nothing else happens
taos_subscribe_fail ==
    /\ ~S.signature
    /\ last' = [NoOp EXCEPT !.op = "subscribe_fail"]
    /\ UNCHANGED <<file, S, now, ticks, tm, th>>

(***************************************************************************)
(* taos_unsubscribe.                                                       *)
(***************************************************************************)
\* the file after remove(path): done is the outcome of remove
RemoveFile(f, done) == IF done THEN NoFile ELSE f

\* the file after taos_unsubscribe(pSub, keepProgress); done is the outcome
\* of the fopen or of the remove
UnsubscribeFile(f, sub, keepProgress, done) ==
    IF keepProgress
    THEN tscSaveSubscriptionProgress(f, sub.sqlstr, sub.progress, done)
    ELSE RemoveFile(f, done)

\* the timer threads after the taosTmrStop of taos_unsubscribe
StopTimer(threads, sub) ==
    IF sub.pTimer # NULL THEN taosTmrStop(threads, sub.pTimer) ELSE threads

\* taos_unsubscribe called by thread t: by the user while no timer callback
\* runs, or by the user callback of timer t on its own subscription
taos_unsubscribe(t) ==
    /\ S.signature
    /\ IF t = UserThread THEN \A u \in Threads : ~InFire(u)
       ELSE th[t].pc = "callback"
    /\ \E keepProgress \in BOOLEAN, done \in BOOLEAN :
         /\ th' = StopTimer(th, S)
         /\ tm' = TimersStopped(tm, th, S.pTimer)
         /\ file' = UnsubscribeFile(file, S, keepProgress, done)
         /\ S' = NoSub
         /\ closed' = [called |-> TRUE, keep |-> keepProgress, ok |-> done]
         /\ last' = [NoOp EXCEPT !.op = "unsubscribe", !.t = t,
                                 !.keep = keepProgress, !.ok = done,
                                 !.old = S.progress]
    /\ UNCHANGED <<now, ticks>>

(***************************************************************************)
(* taos_consume, step by step, run by thread t.                            *)
(***************************************************************************)
\* a consume that never sleeps
PaceNever(sub, t) == 0

\* how long taos_consume sleeps at time t before its retry loop
PaceSleep(sub, t) ==
    IF sub.pTimer = NULL /\ t - sub.lastConsumeTime < sub.interval
    THEN sub.interval - (t - sub.lastConsumeTime)
    ELSE 0

\* a staleness test that counts from the last consume that returned a result
SyncSinceConsume(sub, t) == t - sub.lastConsumeTime > SyncPeriod

\* a consume that refreshes the topology in every iteration
SyncAlways(sub, t) == TRUE

\* the test of taos_consume that decides on a topology refresh
NeedsSync(sub, t) == t - sub.lastSyncTime > SyncPeriod

\* a retry loop that runs once more
RetryOneMore(retry) == retry <= MaxRetry

\* the test of the retry loop
RetryLeft(retry) == retry < MaxRetry

\* thread t leaves taos_consume with result res: its locals are gone
Return(t, res) ==
    [th EXCEPT ![t] = IF t = UserThread
                      THEN [NoCall EXCEPT !.aborted = th[t].aborted]
                      ELSE [NoTimer EXCEPT !.pc = "fired", !.res = res,
                                           !.ncons = th[t].ncons,
                                           !.aborted = th[t].aborted]]

\* what the call of thread t did, as it returns res
Returned(t, res, syncs, syncFailed) ==
    [NoOp EXCEPT !.op = "return", !.t = t, !.ret = res, !.execs = th[t].execs,
                 !.fails = th[t].retry, !.old = th[t].old,
                 !.syncs = syncs, !.syncFailed = syncFailed]

\* the user calls taos_consume on a subscription without callback
UserConsume ==
    /\ S.signature /\ ~S.fp
    /\ th[UserThread].pc = "idle"
    /\ th' = [th EXCEPT ![UserThread].pc = "enter"]
    /\ last' = NoOp
    /\ UNCHANGED <<file, S, now, ticks, tm>>

\* tscSaveSubscriptionProgress(pSub) at the head of taos_consume
ConsumeEnter(t) ==
    /\ th[t].pc = "enter"
    /\ \E opened \in BOOLEAN :
         /\ file' = tscSaveSubscriptionProgress(file, S.sqlstr, S.progress, opened)
         /\ th' = [th EXCEPT ![t].pc = "pace", ![t].retry = 0, ![t].res = NULL,
                             ![t].execs = 0, ![t].syncs = 0,
                             ![t].old = S.progress]
         /\ last' = [NoOp EXCEPT !.op = "enter", !.t = t, !.ok = opened]
    /\ UNCHANGED <<S, now, ticks, tm>>

\* the pacing sleep of a consume no timer drives
ConsumePace(t) ==
    /\ th[t].pc = "pace"
    /\ LET d == PaceSleep(S, now)
       IN IF d > 0
          THEN /\ ticks < MaxTicks
               /\ now' = now + d
               /\ ticks' = ticks + 1
               /\ th' = [th EXCEPT ![t].pc = "loop"]
          ELSE /\ th' = [th EXCEPT ![t].pc = "loop"]
               /\ UNCHANGED <<now, ticks>>
    /\ last' = [NoOp EXCEPT !.op = "pace", !.t = t,
                            !.slept = PaceSleep(S, now) > 0]
    /\ UNCHANGED <<file, S, tm>>

\* the head of one iteration of the retry loop, up to the query
ConsumeLoop(t) ==
    /\ th[t].pc = "loop"
    /\ IF ~RetryLeft(th[t].retry)
       THEN /\ th' = [th EXCEPT ![t].pc = "after"]
            /\ last' = NoOp
            /\ UNCHANGED S
       ELSE IF NeedsSync(S, now)
       THEN \E tables \in ResolverOutcomes(S.kind) :
              LET up == tscUpdateSubscription(S.kind, S.progress, tables)
              IN /\ S' = Synced(S, now, up)
                 /\ IF up.ret = 0
                    THEN /\ th' = [Return(t, NULL) EXCEPT ![t].aborted = TRUE]
                         /\ last' = Returned(t, NULL, th[t].syncs + 1, TRUE)
                    ELSE /\ th' = [th EXCEPT ![t].pc = "query", ![t].syncs = @ + 1]
                         /\ last' = [NoOp EXCEPT !.op = "refresh", !.t = t,
                                                 !.tables = tables, !.ret = 1,
                                                 !.old = S.progress]
       ELSE /\ th' = [th EXCEPT ![t].pc = "query"]
            /\ last' = NoOp
            /\ UNCHANGED S
    /\ UNCHANGED <<file, now, ticks, tm>>

\* tscFreeSqlResult, tscDoQuery and the wait for its completion
ConsumeQuery(t) ==
    /\ th[t].pc = "query"
    /\ \E code \in {"ok", "fail"} :
         IF code # "ok"
         THEN /\ S' = [S EXCEPT !.code = code, !.hasResult = FALSE]
              /\ th' = [th EXCEPT ![t].pc = "loop", ![t].retry = @ + 1,
                                  ![t].execs = @ + 1]
         ELSE /\ S' = [S EXCEPT !.code = code, !.hasResult = FALSE,
                                !.lastSyncTime = 0]
              /\ th' = [th EXCEPT ![t].pc = "after", ![t].execs = @ + 1]
    /\ last' = NoOp
    /\ UNCHANGED <<file, now, ticks, tm>>

\* the end of taos_consume
ConsumeFinish(t) ==
    /\ th[t].pc = "after"
    /\ IF S.code # "ok"
       THEN /\ th' = Return(t, NULL)
            /\ last' = Returned(t, NULL, th[t].syncs, FALSE)
            /\ UNCHANGED S
       ELSE /\ S' = [S EXCEPT !.lastConsumeTime = now, !.hasResult = TRUE]
            /\ th' = Return(t, 1)
            /\ last' = Returned(t, 1, th[t].syncs, FALSE)
    /\ UNCHANGED <<file, now, ticks, tm>>

(***************************************************************************)
(* Rows of a result reach the user: the client library records the         *)
(* timestamp of each with tscUpdateSubscriptionProgress.                   *)
(***************************************************************************)
\* the timestamps a query can deliver for a table whose progress is key:
\* those newer than key
DeliveredTs(key) == {ts \in TsValues : ts > key}

FetchRow(t) ==
    /\ S.signature /\ S.hasResult
    /\ \/ t = UserThread /\ th[t].pc = "idle" /\ ~S.fp
       \/ t # UserThread /\ th[t].pc = "callback"
    /\ \E uid \in Uids :
         \E ts \in DeliveredTs(tscGetSubscriptionProgress(S.progress, uid, INT64_MAX)) :
            /\ S' = [S EXCEPT !.progress = tscUpdateSubscriptionProgress(@, uid, ts)]
            /\ last' = [NoOp EXCEPT !.op = "fetch"]
    /\ UNCHANGED <<file, now, ticks, tm, th>>

(***************************************************************************)
(* tscProcessSubscriptionTimer, run by the thread of timer t.              *)
(***************************************************************************)
\* a guard that only looks whether the subscription lives
FireIfLive(sub, tmrId) == sub.signature

\* a guard that lets every fire through
FireAlways(sub, tmrId) == TRUE

\* the guard of tscProcessSubscriptionTimer: the fire is for this subscription
FireIsCurrent(sub, tmrId) == sub.pTimer = tmrId

\* the start of tscProcessSubscriptionTimer(pSub, t).  Once the subscription
\* is freed pSub dangles: the guard reads freed memory and can go either
\* way, and past it taos_consume runs on freed memory ("uaf")
TimerFire(t) ==
    /\ th[t].pc = "armed"
    /\ now >= tm[t].due
    /\ \E current \in (IF S.signature THEN {FireIsCurrent(S, t)} ELSE BOOLEAN) :
         /\ th' = IF ~current THEN [th EXCEPT ![t] = NoTimer]
                  ELSE IF S.signature
                  THEN [th EXCEPT ![t].pc = "enter", ![t].ncons = 1]
                  ELSE [th EXCEPT ![t].pc = "uaf"]
         /\ last' = [NoOp EXCEPT !.op = "fire", !.t = t, !.ok = current]
    /\ tm' = [tm EXCEPT ![t] = Unset]
    /\ UNCHANGED <<file, S, now, ticks>>

\* tscProcessSubscriptionTimer(handle, t) run for a timer that is no longer
\* waiting (a fire that was under way when the timer was stopped or reset),
\* on a live subscription: handle is NULL or the subscription
LateFire(t) ==
    /\ S.signature
    /\ th[t].pc = "free"
    /\ \E null \in BOOLEAN :
         LET current == ~null /\ FireIsCurrent(S, t)
         IN /\ th' = IF current
                     THEN [th EXCEPT ![t] = [NoCall EXCEPT !.pc = "enter",
                                                          !.ncons = 1]]
                     ELSE th
            /\ last' = [NoOp EXCEPT !.op = "fire", !.t = t, !.ok = current,
                                    !.null = null]
    /\ UNCHANGED <<file, S, now, ticks, tm>>

\* a timer callback that hands every outcome to the user
CallbackAlways(res) == TRUE

\* the test of tscProcessSubscriptionTimer that decides on the user callback
CallbackDue(res) == res # NULL

\* after taos_consume returned: the user callback, if there is a result
TimerResult(t) ==
    /\ th[t].pc = "fired"
    /\ th' = IF CallbackDue(th[t].res)
             THEN [th EXCEPT ![t].pc = "callback", ![t].ncb = @ + 1]
             ELSE [th EXCEPT ![t].pc = "rearm"]
    /\ last' = NoOp
    /\ UNCHANGED <<file, S, now, ticks, tm>>

\* the user callback returns
CallbackReturn(t) ==
    /\ th[t].pc = "callback"
    /\ th' = [th EXCEPT ![t].pc = "rearm"]
    /\ last' = NoOp
    /\ UNCHANGED <<file, S, now, ticks, tm>>

\* taosTmrReset at the end of tscProcessSubscriptionTimer.  Once the
\* subscription is freed, pSub->interval is read from freed memory and the
\* new timer id is written to it
TimerRearm(t) ==
    /\ th[t].pc = "rearm"
    /\ LET done == [th EXCEPT ![t] = NoTimer]
       IN \E id \in FreeTimers(th, S.pTimer),
             ms \in (IF S.signature THEN {S.interval} ELSE Intervals) :
            /\ th' = taosTmrReset(done, S.pTimer, id)
            /\ tm' = TimersReset(tm, done, S.pTimer, id, ms)
            /\ S' = IF S.signature THEN [S EXCEPT !.pTimer = id] ELSE S
            /\ last' = [NoOp EXCEPT !.op = "rearm", !.t = t, !.ret = th[t].res,
                                    !.ncons = th[t].ncons, !.ncb = th[t].ncb]
    /\ UNCHANGED <<file, now, ticks>>

\* the life of one subscription, whatever progress file is on disk
Next ==
    \/ taos_subscribe /\ UNCHANGED <<hw, closed>>
    \/ Tick /\ UNCHANGED <<nsub, hw, closed>>
    \/ taos_subscribe_fail /\ UNCHANGED <<nsub, hw, closed>>
    \/ \E t \in Threads : taos_unsubscribe(t) /\ UNCHANGED <<nsub, hw>>
    \/ UserConsume /\ UNCHANGED <<nsub, hw, closed>>
    \/ \E t \in Threads : ConsumeEnter(t) /\ UNCHANGED <<nsub, hw, closed>>
    \/ \E t \in Threads : ConsumePace(t) /\ UNCHANGED <<nsub, hw, closed>>
    \/ \E t \in Threads : ConsumeLoop(t) /\ UNCHANGED <<nsub, hw, closed>>
    \/ \E t \in Threads : ConsumeQuery(t) /\ UNCHANGED <<nsub, hw, closed>>
    \/ \E t \in Threads : ConsumeFinish(t) /\ UNCHANGED <<nsub, hw, closed>>
    \/ \E t \in Threads : FetchRow(t) /\ UNCHANGED <<nsub, hw, closed>>
    \/ \E t \in TmrIds : TimerFire(t) /\ UNCHANGED <<nsub, hw, closed>>
    \/ \E t \in TmrIds : TimerResult(t) /\ UNCHANGED <<nsub, hw, closed>>
    \/ \E t \in TmrIds : CallbackReturn(t) /\ UNCHANGED <<nsub, hw, closed>>
    \/ \E t \in TmrIds : TimerRearm(t) /\ UNCHANGED <<nsub, hw, closed>>

Spec == Init /\ [][Next]_vars

\* the same with hw kept, for a subscription the user consumes by hand; on
\* disk there is no file, or one of MaxTables entries in any order
HwFiles ==
    {NoFile} \cup
    {FileOf(h \o Concat(ls)) :
        h \in {SqlSuper \o <<LF>>, SqlNormal \o <<LF>>},
        ls \in [1..MaxTables -> {FormatEntry(Entry(u, MaxTs)) : u \in Uids}]}

InitHw == Init /\ file \in HwFiles

NextHw ==
    \/ taos_subscribe /\ UNCHANGED closed /\ hw' = Track(hw, S')
    \/ Tick /\ UNCHANGED <<nsub, closed>> /\ hw' = Track(hw, S')
    \/ taos_unsubscribe(UserThread) /\ UNCHANGED nsub /\ hw' = Track(hw, S')
    \/ UserConsume /\ UNCHANGED <<nsub, closed>> /\ hw' = Track(hw, S')
    \/ ConsumeEnter(UserThread) /\ UNCHANGED <<nsub, closed>> /\ hw' = Track(hw, S')
    \/ ConsumePace(UserThread) /\ UNCHANGED <<nsub, closed>> /\ hw' = Track(hw, S')
    \/ ConsumeLoop(UserThread) /\ UNCHANGED <<nsub, closed>> /\ hw' = Track(hw, S')
    \/ ConsumeQuery(UserThread) /\ UNCHANGED <<nsub, closed>> /\ hw' = Track(hw, S')
    \/ ConsumeFinish(UserThread) /\ UNCHANGED <<nsub, closed>> /\ hw' = Track(hw, S')
    \/ FetchRow(UserThread) /\ UNCHANGED <<nsub, closed>> /\ hw' = Track(hw, S')

SpecHw == InitHw /\ [][NextHw]_vars

\* taos_subscribe alone, on whatever progress file is on disk, and the end
\* of the subscription it returns
NextSubscribe ==
    \/ taos_subscribe /\ UNCHANGED <<hw, closed>>
    \/ taos_subscribe_fail /\ UNCHANGED <<nsub, hw, closed>>
    \/ taos_unsubscribe(UserThread) /\ UNCHANGED <<nsub, hw>>

SpecSubscribe == Init /\ [][NextSubscribe]_vars

\* a subscription with callback, begun with no file on disk and driven by
\* the timer, whose timer service also delivers late fires
InitFire == Init /\ file \in {NoFile}

NextFire ==
    \/ taos_subscribe /\ UNCHANGED <<hw, closed>>
    \/ Tick /\ UNCHANGED <<nsub, hw, closed>>
    \/ taos_unsubscribe(UserThread) /\ UNCHANGED <<nsub, hw>>
    \/ \E t \in TmrIds : ConsumeEnter(t) /\ UNCHANGED <<nsub, hw, closed>>
    \/ \E t \in TmrIds : ConsumePace(t) /\ UNCHANGED <<nsub, hw, closed>>
    \/ \E t \in TmrIds : ConsumeLoop(t) /\ UNCHANGED <<nsub, hw, closed>>
    \/ \E t \in TmrIds : ConsumeQuery(t) /\ UNCHANGED <<nsub, hw, closed>>
    \/ \E t \in TmrIds : ConsumeFinish(t) /\ UNCHANGED <<nsub, hw, closed>>
    \/ \E t \in TmrIds : FetchRow(t) /\ UNCHANGED <<nsub, hw, closed>>
    \/ \E t \in TmrIds : TimerFire(t) /\ UNCHANGED <<nsub, hw, closed>>
    \/ \E t \in TmrIds : LateFire(t) /\ UNCHANGED <<nsub, hw, closed>>
    \/ \E t \in TmrIds : TimerResult(t) /\ UNCHANGED <<nsub, hw, closed>>
    \/ \E t \in TmrIds : CallbackReturn(t) /\ UNCHANGED <<nsub, hw, closed>>
    \/ \E t \in TmrIds : TimerRearm(t) /\ UNCHANGED <<nsub, hw, closed>>

SpecFire == InitFire /\ [][NextFire]_vars

(***************************************************************************)
(* Properties.                                                             *)
(***************************************************************************)
Range(seq) == {seq[i] : i \in 1..Len(seq)}
UidsOf(prog) == {prog[i].uid : i \in 1..Len(prog)}
\* the keys prog holds for uid, wherever they stand in the array
KeysOf(prog, uid) == {prog[i].key : i \in {j \in 1..Len(prog) : prog[j].uid = uid}}
\* the key the subscription reports for uid, NoKey when it has none
Get(prog, uid) == tscGetSubscriptionProgress(prog, uid, NoKey)
\* no uid reported in both old and new has a smaller key in new
KeysKept(old, new) ==
    \A u \in Uids :
        Get(old, u) # NoKey /\ Get(new, u) # NoKey => Get(new, u) >= Get(old, u)
StrictlySorted(prog) ==
    \A i \in 1..(Len(prog) - 1) : prog[i].uid < prog[i + 1].uid

FileEntries(f) ==
    ReadEntries(f.data, fgets(f.data, 0, TSDB_MAX_SQL_LEN).pos)

C2_RefreshKeepsKeys ==
    (/\ last.op \in {"subscribe", "refresh"} /\ last.ret # NULL /\ S.kind = "super"
     /\ last.op = "subscribe" => Cardinality(FileEntries(file)) = 1
     /\ UidsOf(last.old) \subseteq Uids
     /\ IsInjective([i \in 1..Len(last.old) |-> last.old[i].uid])) =>
        /\ Len(S.progress) = Len(last.tables.list)
        /\ UidsOf(S.progress) = Range(last.tables.list)
        /\ \A i \in 1..Len(S.progress) :
             LET prior == KeysOf(last.old, S.progress[i].uid)
             IN IF prior = {} THEN S.progress[i].key = INT64_MIN
                ELSE S.progress[i].key \in prior

(***************************************************************************)
(* C3.  The ProgressSet of a subscription is strictly ascending by uid,    *)
(* each uid at most once: when subscribe returns after it loaded a file    *)
(* whose lines are all entries, in whatever order, and after every later   *)
(* operation.                                                              *)
(***************************************************************************)
C3_SortedUnique ==
    (/\ S.signature
     /\ last.op = "subscribe" => Cardinality(FileEntries(file)) = 1)
    => StrictlySorted(S.progress)

(***************************************************************************)
(* C4.  After subscribe with restart=false on a file that was read, whose  *)
(* first line is the statement and whose other lines are entries of        *)
(* distinct uids, the same uids as the table list: load has left the       *)
(* entries sorted by uid, and the ProgressSet of the subscription is the   *)
(* file's entries sorted by uid.                                           *)
(***************************************************************************)
C4_ResumeSorted ==
    (/\ last.op = "subscribe" /\ last.ret # NULL
     /\ ~last.restart /\ last.matched /\ last.loadRet = 0
     /\ Cardinality(FileEntries(file)) = 1
     /\ \A es \in FileEntries(file) :
           /\ IsInjective([i \in 1..Len(es) |-> es[i].uid])
           /\ UidsOf(es) = (IF S.kind = "super" THEN Range(last.tables.list)
                            ELSE {NormalUid}))
    => \A es \in FileEntries(file) :
           /\ last.old = taosArraySort(es)
           /\ S.progress = taosArraySort(es)

(***************************************************************************)
(* C5.  Saving the subscription and loading the file just written gives    *)
(* back the ProgressSet that was saved, and load returns 1 (Loaded).       *)
(***************************************************************************)
C5_SaveLoadRoundTrip ==
    S.signature =>
        tscLoadSubscriptionProgress(
            tscSaveSubscriptionProgress(file, S.sqlstr, S.progress, TRUE),
            S.sqlstr, <<>>, TRUE)
        = {[ret |-> 1, progress |-> S.progress]}

(***************************************************************************)
(* C6.  The subscription subscribe returns holds no entry and no key from  *)
(* the file unless restart=false and the first line of the file, cut at    *)
(* its CR or LF, is the lowercased statement: with restart=true, or with a *)
(* statement that differs from the first line, every table starts from     *)
(* the beginning (INT64_MIN per table of a super table, the single entry   *)
(* with key 0 of a normal table).                                          *)
(***************************************************************************)
\* the first line of f is sql, ended by CR or LF
HeaderIs(f, sql) ==
    /\ f.exists
    /\ Len(f.data) > Len(sql)
    /\ SubSeq(f.data, 1, Len(sql)) = sql
    /\ f.data[Len(sql) + 1] \in {CR, LF}

\* sub holds nothing but what a first subscription holds
Fresh(sub) ==
    IF sub.kind = "super"
    THEN \A i \in 1..Len(sub.progress) : sub.progress[i].key = INT64_MIN
    ELSE sub.progress = <<Entry(NormalUid, 0)>>

C6_DiskOnlyWhenAllowed ==
    (/\ last.op = "subscribe" /\ last.ret # NULL
     /\ last.restart \/ ~HeaderIs(file, S.sqlstr))
    => Fresh(S)

\* subscribe without restart found the entries of another statement, for
\* the tables of this one
C6_Witness ==
    /\ last.op = "subscribe" /\ last.ret # NULL /\ ~last.restart
    /\ S.kind = "super"
    /\ HeaderIs(file, SqlNormal)
    /\ Len(S.progress) = MaxTables
    /\ \A es \in FileEntries(file) : UidsOf(es) = UidsOf(S.progress)

(***************************************************************************)
(* C7.  A consume whose refresh does not fail runs the query at most 3     *)
(* times and stops at the first success: it returns a result, with         *)
(* lastConsumeTime set to the time of return, exactly when an execution    *)
(* succeeded, after one more execution than there were failures; and it    *)
(* returns NULL after exactly 3 failed executions.  lastConsumeTime        *)
(* changes in no other step.                                               *)
(***************************************************************************)
C7_RetryContract ==
    /\ [](last.op = "return" /\ ~last.syncFailed =>
            /\ last.execs <= 3
            /\ (last.ret # NULL) = (S.code = "ok")
            /\ last.ret # NULL =>
                 /\ last.execs = last.fails + 1
                 /\ S.lastConsumeTime = now
            /\ last.ret = NULL => last.execs = 3 /\ last.fails = 3)
    /\ [][(S.signature /\ S'.signature /\ S'.lastConsumeTime # S.lastConsumeTime)
            => (last'.op = "return" /\ last'.ret # NULL)]_vars

\* a consume returns NULL after the query failed three times, some time
\* after an earlier consume succeeded
C7_Witness ==
    /\ last.op = "return" /\ ~last.syncFailed
    /\ last.ret = NULL /\ last.execs = 3
    /\ S.lastConsumeTime # 0 /\ S.lastConsumeTime < now

(***************************************************************************)
(* C8.  As stated: when taos_consume has done its save, the progress file  *)
(* holds the statement and the ProgressSet of that moment.                 *)
(***************************************************************************)
C8_SavedAtEntry ==
    last.op = "enter" =>
        file = FileOf(S.sqlstr \o <<LF>> \o FormatEntries(S.progress))

(***************************************************************************)
(* C8, amended: the first step of every consume is the save; if the file   *)
(* can be opened it then holds the statement and the ProgressSet as it     *)
(* stood at entry, else it is left as it was; the rest of the call neither *)
(* writes the file nor advances a key, also when it ends in retry          *)
(* exhaustion.                                                             *)
(***************************************************************************)
\* no key of new is one that old did not hold, but for the key of a table
\* that starts from the beginning
NoKeyAdvanced(old, new) ==
    \A i \in 1..Len(new) :
        \/ new[i].key \in KeysOf(old, new[i].uid)
        \/ new[i].key \in {INT64_MIN, 0} /\ KeysOf(old, new[i].uid) = {}

C8_SavedAtEntryIfOpened ==
    /\ [](last.op = "enter" =>
            /\ th[last.t].pc = "pace" /\ th[last.t].execs = 0 /\ th[last.t].syncs = 0
            /\ last.ok => file = FileOf(S.sqlstr \o <<LF>> \o FormatEntries(S.progress)))
    /\ [][\A t \in Threads :
            /\ (th[t].pc = "enter" /\ th'[t].pc # "enter") =>
                   /\ last'.op = "enter" /\ last'.t = t /\ S' = S
                   /\ ~last'.ok => file' = file
            /\ th[t].pc \in {"pace", "loop", "query", "after"} =>
                   /\ file' = file
                   /\ NoKeyAdvanced(S.progress, S'.progress)]_vars

\* a consume saves keys that earlier consumes delivered rows up to
C8_Witness ==
    /\ last.op = "enter" /\ last.ok
    /\ Len(S.progress) = MaxTables
    /\ \A i \in 1..Len(S.progress) : S.progress[i].key >= 1
    /\ S.lastConsumeTime # 0

(***************************************************************************)
(* C9.  Once taos_unsubscribe(pSub, 0) has returned, called while no       *)
(* taos_consume runs: the subscription is destroyed, the progress file     *)
(* does not exist if remove succeeded, and from then on no timer of the    *)
(* subscription is armed, none enters taos_consume and none starts the     *)
(* user callback.                                                          *)
(***************************************************************************)
C9_UnsubscribeEndsTimer ==
    (closed.called /\ ~closed.keep) =>
        /\ ~S.signature
        /\ closed.ok => ~file.exists
        /\ \A t \in TmrIds : th[t].pc \in {"free", "callback", "rearm"}
        /\ last.op # "rearm"

(***************************************************************************)
(* C10.  Every timer fire that passes the guard of the timer callback      *)
(* calls taos_consume once, then the user callback once if taos_consume    *)
(* returned a result and not at all if it returned NULL, and ends by       *)
(* arming a timer of the subscription's interval, whatever taos_consume    *)
(* returned; a fire ends in no other way.                                  *)
(***************************************************************************)
C10_SchedulerCycle ==
    /\ [](last.op = "fire" /\ last.ok /\ S.signature =>
            th[last.t].pc = "enter" /\ th[last.t].ncons = 1)
    /\ [](last.op = "rearm" =>
            /\ last.ncons = 1
            /\ last.ncb = (IF last.ret # NULL THEN 1 ELSE 0)
            /\ \E id \in TmrIds :
                 /\ th[id].pc = "armed"
                 /\ S.signature =>
                      /\ S.pTimer = id
                      /\ tm[id] = [due |-> now + S.interval, ms |-> S.interval])
    /\ [][\A t \in TmrIds :
            (InFire(t) /\ ~InFire(t)') => (last'.op = "rearm" /\ last'.t = t)]_vars

\* a fire whose consume returned NULL has armed the next timer
C10_Witness ==
    /\ last.op = "rearm" /\ last.ret = NULL /\ last.ncb = 0
    /\ S.signature
    /\ th[S.pTimer].pc = "armed"

(***************************************************************************)
(* C11.  As stated: a consume on a subscription without callback never     *)
(* sleeps on account of interval.                                          *)
(***************************************************************************)
C11_IntervalIgnored ==
    (last.op = "pace" /\ S.signature /\ ~S.fp) => ~last.slept

(***************************************************************************)
(* C11, amended: subscribe stores interval also when no callback is given  *)
(* and then arms no timer; a consume that no timer drives sleeps before    *)
(* its retry loop for interval - (now - lastConsumeTime) ms when that is   *)
(* positive and not at all otherwise, and a consume the timer drives does  *)
(* not sleep.                                                              *)
(***************************************************************************)
C11_IntervalPacesSyncConsume ==
    /\ [](last.op = "subscribe" /\ last.ret # NULL /\ ~S.fp =>
            /\ S.pTimer = NULL
            /\ \A id \in TmrIds : th[id].pc = "free")
    /\ [][\A t \in Threads :
            (th[t].pc = "pace" /\ th'[t].pc = "loop") =>
                now' - now =
                    (IF t = UserThread /\ now - S.lastConsumeTime < S.interval
                     THEN S.interval - (now - S.lastConsumeTime)
                     ELSE 0)]_vars

\* a consume without callback, right after one that returned a result, has
\* slept the whole interval
C11_Witness ==
    /\ last.op = "pace" /\ last.t = UserThread /\ last.slept
    /\ S.signature /\ ~S.fp /\ S.pTimer = NULL
    /\ now = S.lastConsumeTime + S.interval

(***************************************************************************)
(* C12.  The ProgressSet of a subscription on a normal table has exactly   *)
(* one entry, and its uid is the uid of the table: when subscribe returns  *)
(* after it loaded a file whose lines are all entries, and after every     *)
(* later operation.                                                        *)
(***************************************************************************)
C12_NormalTablePin ==
    (/\ S.signature /\ S.kind = "normal"
     /\ last.op = "subscribe" => Cardinality(FileEntries(file)) = 1)
    => /\ Len(S.progress) = 1
       /\ S.progress[1].uid = NormalUid

(***************************************************************************)
(* C13.  As stated, for the first consume after creation: a consume        *)
(* entered on a subscription that has run no query yet, before the clock   *)
(* has advanced since subscribe, has refreshed the topology when it runs   *)
(* its first query.                                                        *)
(***************************************************************************)
C13_FirstConsumeRefreshes ==
    \A t \in Threads :
        (S.signature /\ th[t].pc = "query" /\ S.code = "none" /\ ticks = 0)
        => th[t].syncs >= 1

(***************************************************************************)
(* C13, amended: an iteration of the retry loop calls                      *)
(* tscUpdateSubscription, before its query, exactly when more than 10      *)
(* minutes have passed since lastSyncTime; the first consume after         *)
(* creation is no exception, and subscribe has set lastSyncTime to the     *)
(* time of its own refresh.                                                *)
(***************************************************************************)
\* the step to the right of the arrow is a call of tscUpdateSubscription
\* made by the consume of thread t
RefreshStep(t) ==
    /\ last'.t = t
    /\ \/ last'.op = "refresh"
       \/ last'.op = "return" /\ last'.syncFailed

C13_RefreshWhenStale ==
    /\ [](last.op = "subscribe" /\ last.ret # NULL => S.lastSyncTime = now)
    /\ [][\A t \in Threads :
            (th[t].pc = "loop" /\ th[t].retry < 3 /\ th'[t] # th[t]) =>
                /\ RefreshStep(t) <=> (now - S.lastSyncTime > 10 * 60 * 1000)
                /\ RefreshStep(t) => S'.lastSyncTime = now
                /\ (RefreshStep(t) /\ last'.op = "refresh") =>
                       /\ th'[t].pc = "query"
                       /\ th'[t].execs = th[t].execs
                /\ ~RefreshStep(t) => (S' = S /\ th'[t].pc = "query")]_vars

\* the first consume after creation, entered more than 10 minutes after
\* subscribe, has refreshed the topology and is about to run its query
C13_Witness ==
    /\ last.op = "refresh"
    /\ th[last.t].pc = "query" /\ th[last.t].execs = 0
    /\ S.code = "none"
    /\ S.lastSyncTime = now
    /\ now > StartTime + SyncPeriod

C15_AbortKeepsEntryProgress ==
    (last.op = "return" /\ last.syncFailed) =>
        /\ last.ret = NULL
        /\ S.signature
        /\ S.progress = last.old

(***************************************************************************)
(* C15, amended: a refresh that fails in consume ends the call at once     *)
(* with NULL: the query of that iteration is not run, the ProgressSet is   *)
(* what it was before that refresh (an earlier iteration of the same call  *)
(* may have refreshed it), nothing of the subscription but lastSyncTime    *)
(* changes, neither the file nor a timer is touched, and the subscription  *)
(* lives on.                                                               *)
(***************************************************************************)
C15_AbortedRefresh ==
    /\ [](last.op = "return" /\ last.syncFailed =>
            /\ last.ret = NULL
            /\ S.signature
            /\ th[last.t].pc = (IF last.t = UserThread THEN "idle" ELSE "fired")
            /\ last.execs = last.fails)
    /\ [][(last'.op = "return" /\ last'.syncFailed) =>
            /\ S' = [S EXCEPT !.lastSyncTime = now]
            /\ file' = file
            /\ tm' = tm
            /\ last'.execs = th[last'.t].execs]_vars

\* a consume returns a result on a subscription of which an earlier consume
\* was ended by a failed refresh
C15_Witness ==
    /\ last.op = "return" /\ last.ret # NULL
    /\ last.t = UserThread
    /\ th[UserThread].aborted
    /\ Len(S.progress) = MaxTables

(***************************************************************************)
(* C16.  After subscribe with restart=false has read a file whose first    *)
(* line is the statement and of which a later line is no entry, the array  *)
(* load has left is the entries of the lines before the first such line:   *)
(* that line gave no entry, and no line after it was read.                 *)
(***************************************************************************)
RECURSIVE EntriesBeforeBadLine(_, _)
\* the entries of the lines of data from offset pos up to the first line
\* that is not of the form <int64>:<int64>
EntriesBeforeBadLine(data, pos) ==
    LET r == fgets(data, pos, TSDB_MAX_SQL_LEN)
    IN IF r.null \/ ScanEntry(r.buf).n # 2 THEN <<>>
       ELSE <<Entry(ScanEntry(r.buf).uid, ScanEntry(r.buf).key)>>
                \o EntriesBeforeBadLine(data, r.pos)

C16_LoadStopsAtBadLine ==
    (/\ last.op = "subscribe" /\ last.ret # NULL
     /\ ~last.restart /\ last.matched /\ last.loadRet = 0
     /\ Cardinality(FileEntries(file)) > 1)
    => last.old = EntriesBeforeBadLine(file.data,
                                       fgets(file.data, 0, TSDB_MAX_SQL_LEN).pos)

(***************************************************************************)
(* C17.  A run of the timer callback on a live subscription goes past its  *)
(* guard exactly when its handle is not NULL and its timer id is the one   *)
(* stored in pTimer; a run that does not go past the guard, whatever it    *)
(* read, does nothing: the subscription, the progress file, every timer    *)
(* and every other thread are as before, taos_consume is not entered, the  *)
(* user callback is not called and no timer is armed.                      *)
(***************************************************************************)
C17_StaleFireIsNoOp ==
    /\ [](last.op = "fire" /\ S.signature =>
            (last.ok <=> (~last.null /\ S.pTimer = last.t)))
    /\ [][(last'.op = "fire" /\ ~last'.ok) =>
            /\ S' = S
            /\ file' = file
            /\ th'[last'.t] = NoTimer
            /\ tm'[last'.t] = Unset
            /\ \A u \in Threads \ {last'.t} : th'[u] = th[u]
            /\ \A u \in TmrIds \ {last'.t} : tm'[u] = tm[u]]_vars

\* the late fire of a timer the subscription has replaced is ignored while
\* the timer that replaced it waits
C17_Witness ==
    /\ last.op = "fire" /\ ~last.ok /\ ~last.null
    /\ S.signature /\ S.fp
    /\ S.pTimer # last.t
    /\ th[S.pTimer].pc = "armed"
    /\ S.lastConsumeTime # 0

(***************************************************************************)
(* C18.  Of a subscription with callback that only its timer drives, at    *)
(* most one timer is in use at any time, waiting or running its callback:  *)
(* so at most one timer waits, at most one taos_consume is in progress,    *)
(* and none waits while one runs.  The timer that waits is the one in      *)
(* pTimer.  A timer is set to wait only by subscribe and by the last step  *)
(* of a fire, after its taos_consume and its user callback have returned.  *)
(***************************************************************************)
TimersInUse == {t \in TmrIds : th[t].pc # "free"}

C18_OneFireAtATime ==
    /\ [](Cardinality(TimersInUse) <= 1)
    /\ [](Cardinality({t \in Threads : InConsume(t)}) <= 1)
    /\ [](\A t \in TmrIds : (S.signature /\ th[t].pc = "armed") => S.pTimer = t)
    /\ [][\A id \in TmrIds :
            (th[id].pc # "armed" /\ th'[id].pc = "armed") =>
                \/ last'.op = "subscribe"
                \/ /\ last'.op = "rearm"
                   /\ th[last'.t].pc = "rearm"
                   /\ last'.ncons = 1
                   /\ \A u \in Threads : ~InFire(u)']_vars

\* a fire has run taos_consume and the user callback and has then set the
\* next timer to wait, the only one in use
C18_Witness ==
    /\ last.op = "rearm" /\ last.ret # NULL /\ last.ncb = 1
    /\ S.signature /\ S.fp
    /\ TimersInUse = {S.pTimer}
    /\ th[S.pTimer].pc = "armed"
    /\ S.pTimer # last.t

(***************************************************************************)
(* C19.  As stated: after a subscribe with restart=true that failed at     *)
(* its refresh, on a topic whose file was one of the statement, the        *)
(* progress file holds the statement and no entry.                         *)
(***************************************************************************)
C19_FailedRestartEmptiesFile ==
    (last.op = "subscribe" /\ last.ret = NULL /\ last.restart /\ last.matched) =>
        /\ HeaderIs(file, last.sql)
        /\ FileEntries(file) = {<<>>}

(***************************************************************************)
(* C19, amended: a subscribe whose refresh fails returns NULL, leaves no   *)
(* subscription and no timer, and runs the save of taos_unsubscribe(pSub,  *)
(* 1): if the file can be opened for writing it then holds the statement   *)
(* and the entries in memory (those loaded from the file, none with        *)
(* restart=true), else it is left as it was.                               *)
(***************************************************************************)
C19_FailedSubscribeSaves ==
    [][(last'.op = "subscribe" /\ last'.ret = NULL) =>
         /\ last'.tables.null
         /\ ~S'.signature
         /\ th' = th /\ tm' = tm
         /\ last'.restart => last'.old = <<>>
         /\ file' = (IF last'.ok
                     THEN FileOf(last'.sql \o <<LF>> \o FormatEntries(last'.old))
                     ELSE file)]_vars

\* a subscribe with restart=true has failed at its refresh and has left, of
\* a file of the statement, the first line only
C19_Witness ==
    /\ last.op = "subscribe" /\ last.ret = NULL
    /\ last.restart /\ last.matched /\ last.ok
    /\ file = FileOf(last.sql \o <<LF>>)
    /\ \A id \in TmrIds : th[id].pc = "free"

(***************************************************************************)
(* C20.  As stated, second half: one call of taos_consume calls            *)
(* tscUpdateSubscription at most once.                                     *)
(***************************************************************************)
C20_OneRefreshPerCall ==
    /\ \A t \in Threads : th[t].syncs <= 1
    /\ last.op = "return" => last.syncs <= 1

(***************************************************************************)
(* C20, amended: a refresh that fails leaves lastSyncTime at the time of   *)
(* its call; lastSyncTime changes by a refresh and by a query that         *)
(* succeeds, and by nothing else; an iteration of the retry loop entered   *)
(* no more than 10 minutes after lastSyncTime runs its query without a     *)
(* refresh.  So the consume that follows an aborted one within 10 minutes  *)
(* does not refresh, and one call refreshes at most once per iteration, a  *)
(* second time only when more than 10 minutes have passed since its        *)
(* previous refresh.                                                       *)
(***************************************************************************)
C20_FailedRefreshCounts ==
    /\ [](last.op = "return" /\ last.syncFailed => S.lastSyncTime = now)
    /\ [](last.op = "return" => last.syncs <= last.fails + 1)
    /\ [](\A t \in Threads :
            (S.signature /\ th[t].pc \in {"loop", "query"} /\ th[t].syncs >= 1) =>
                /\ th[t].syncs <= th[t].retry + 1
                /\ S.lastSyncTime # 0
                /\ S.lastSyncTime <= now)
    /\ [][(S.signature /\ S'.signature /\ S'.lastSyncTime # S.lastSyncTime) =>
            \/ \E t \in Threads : RefreshStep(t) /\ S'.lastSyncTime = now
            \/ /\ \E t \in Threads : th[t].pc = "query"
               /\ S'.code = "ok" /\ S'.lastSyncTime = 0]_vars
    /\ [][\A t \in Threads :
            (th[t].pc = "loop" /\ th[t].retry < 3 /\ th'[t] # th[t]
                /\ now - S.lastSyncTime <= 10 * 60 * 1000) =>
                /\ ~RefreshStep(t)
                /\ th'[t].pc = "query" /\ th'[t].syncs = th[t].syncs]_vars

\* a consume entered right after one that a failed refresh ended is about
\* to run its query and has made no refresh
C20_Witness ==
    /\ S.signature
    /\ th[UserThread].pc = "query"
    /\ th[UserThread].syncs = 0 /\ th[UserThread].execs = 0
    /\ th[UserThread].aborted
    /\ S.lastSyncTime = now

=============================================================================
